---- MODULE Spec2Model ----
(***************************************************************************)
(* Model of imgToVideo.py: scaleAndBlur (the compositor), frames_from_image *)
(* (the lazy frame generator) and the per-image batch loop of __main__.     *)
(*                                                                          *)
(* Python evaluates targetWidth/initialWidth, i*zoomRate, ... in IEEE-754   *)
(* binary64.  The sizes and margins the program uses are int() truncations  *)
(* of such values, so the arithmetic is modelled bit-exactly: a double is   *)
(* sign * m * 2^e with m a 53-bit natural, kept as a little-endian sequence *)
(* of 15-bit limbs (TLC integers are 32 bits wide).  Every operation forms  *)
(* the exact result and rounds it to nearest, ties to even, as the hardware *)
(* does.  Subnormals, infinities and NaN are outside the ranges used.       *)
(*                                                                          *)
(* Intermediate values are handed on as operator arguments instead of LET   *)
(* definitions, so that each is evaluated once.                             *)
(***************************************************************************)
EXTENDS Integers, Sequences, FiniteSets, TLC

----------------------------------------------------------------------------
(* Natural numbers of arbitrary size: little-endian limbs, no leading zero. *)

LimbBits == 15
LimbBase == 2^15
MantBits == 53

RECURSIVE BigNorm(_)
BigNorm(n) ==
    IF n = <<>> THEN <<>>
    ELSE IF n[Len(n)] = 0 THEN BigNorm(SubSeq(n, 1, Len(n) - 1))
    ELSE n

RECURSIVE BigFromInt(_)
BigFromInt(k) ==
    IF k = 0 THEN <<>> ELSE <<k % LimbBase>> \o BigFromInt(k \div LimbBase)

RECURSIVE BigToInt(_)
BigToInt(n) ==
    IF n = <<>> THEN 0 ELSE n[1] + LimbBase * BigToInt(Tail(n))

RECURSIVE BitLenInt(_)
BitLenInt(k) == IF k = 0 THEN 0 ELSE 1 + BitLenInt(k \div 2)

BigBitLen(n) ==
    IF n = <<>> THEN 0 ELSE LimbBits * (Len(n) - 1) + BitLenInt(n[Len(n)])

RECURSIVE BigMulCarry(_, _, _)
BigMulCarry(n, k, c) ==
    IF n = <<>> THEN BigFromInt(c)
    ELSE LET t == n[1] * k + c
         IN  <<t % LimbBase>> \o BigMulCarry(Tail(n), k, t \div LimbBase)

\* n * k for 0 <= k <= LimbBase
BigMulSmall(n, k) == BigNorm(BigMulCarry(n, k, 0))

BigDivPut(rest, digit) == [q |-> rest.q \o <<digit>>, r |-> rest.r]

RECURSIVE BigDivRem(_, _, _)
BigDivRem(n, d, r) ==
    IF n = <<>> THEN [q |-> <<>>, r |-> r]
    ELSE BigDivPut(BigDivRem(SubSeq(n, 1, Len(n) - 1), d,
                             (r * LimbBase + n[Len(n)]) % d),
                   (r * LimbBase + n[Len(n)]) \div d)

BigDivNorm(x) == [q |-> BigNorm(x.q), r |-> x.r]

\* [q |-> n div d, r |-> n mod d] for 0 < d <= LimbBase
BigDivSmall(n, d) == BigDivNorm(BigDivRem(n, d, 0))

BigShl(n, s) ==
    IF n = <<>> THEN <<>>
    ELSE [j \in 1..(s \div LimbBits) |-> 0] \o BigMulSmall(n, 2^(s % LimbBits))

\* [q |-> n div 2^s, sticky |-> n mod 2^s # 0]
BigShrOut(x, low) ==
    [q |-> x.q, sticky |-> x.r # 0 \/ \E j \in 1..Len(low) : low[j] # 0]

BigShr(n, s) ==
    BigShrOut(BigDivSmall(SubSeq(n, s \div LimbBits + 1, Len(n)), 2^(s % LimbBits)),
              SubSeq(n, 1, IF s \div LimbBits < Len(n) THEN s \div LimbBits
                           ELSE Len(n)))

RECURSIVE BigAddCarry(_, _, _)
BigAddCarry(a, b, c) ==
    IF a = <<>> /\ b = <<>> THEN BigFromInt(c)
    ELSE LET x == IF a = <<>> THEN 0 ELSE a[1]
             y == IF b = <<>> THEN 0 ELSE b[1]
             t == x + y + c
         IN  <<t % LimbBase>> \o
             BigAddCarry(IF a = <<>> THEN a ELSE Tail(a),
                         IF b = <<>> THEN b ELSE Tail(b), t \div LimbBase)

BigAdd(a, b) == BigNorm(BigAddCarry(a, b, 0))

RECURSIVE BigSubBorrow(_, _, _)
BigSubBorrow(a, b, c) ==
    IF a = <<>> THEN <<>>
    ELSE LET y == IF b = <<>> THEN 0 ELSE b[1]
             t == a[1] - y - c
         IN  <<t % LimbBase>> \o
             BigSubBorrow(Tail(a), IF b = <<>> THEN b ELSE Tail(b),
                          IF t < 0 THEN 1 ELSE 0)

\* a - b for a >= b
BigSub(a, b) == BigNorm(BigSubBorrow(a, b, 0))

RECURSIVE BigCmp(_, _)
\* -1, 0, 1 as a < b, a = b, a > b
BigCmp(a, b) ==
    IF Len(a) # Len(b) THEN (IF Len(a) < Len(b) THEN -1 ELSE 1)
    ELSE IF a = <<>> THEN 0
    ELSE IF a[Len(a)] # b[Len(b)] THEN (IF a[Len(a)] < b[Len(b)] THEN -1 ELSE 1)
    ELSE BigCmp(SubSeq(a, 1, Len(a) - 1), SubSeq(b, 1, Len(b) - 1))

----------------------------------------------------------------------------
(* binary64 values: [s |-> -1 | 0 | 1, m |-> 53-bit natural, e |-> exponent] *)

FZero == [s |-> 0, m |-> <<>>, e |-> 0]

\* The double nearest to (n + f) * 2^e, where n is a natural, 0 <= f < 1 and
\* sticky says f # 0 (round to nearest, ties to even).
\* q is the mantissa after rounding; a carry out of it moves the exponent
FRoundCarry(q, e) ==
    IF BigBitLen(q) > MantBits
    THEN [s |-> 1, m |-> BigDivSmall(q, 2).q, e |-> e + 1]
    ELSE [s |-> 1, m |-> q, e |-> e]

\* q holds the kept bits, half the first dropped bit, sticky the rest
FRoundUp(q, half, sticky, e) ==
    FRoundCarry(IF half /\ (sticky \/ q[1] % 2 = 1) THEN BigAdd(q, <<1>>) ELSE q,
                e)

\* a holds the kept bits and the first dropped bit
FRoundHalf(a, sticky, e) ==
    FRoundUp(BigDivSmall(a.q, 2).q, a.q[1] % 2 = 1, a.sticky \/ sticky, e)

FRoundLen(n, e, sticky, len) ==
    IF len = 0 THEN FZero
    ELSE IF len <= MantBits
    THEN [s |-> 1, m |-> BigShl(n, MantBits - len), e |-> e - (MantBits - len)]
    ELSE FRoundHalf(BigShr(n, len - MantBits - 1), sticky, e + len - MantBits)

FRound(n, e, sticky) == FRoundLen(n, e, sticky, BigBitLen(n))

FNeg(x) == [x EXCEPT !.s = -x.s]

FFromInt(k) ==
    IF k < 0 THEN FNeg(FRound(BigFromInt(-k), 0, FALSE))
    ELSE FRound(BigFromInt(k), 0, FALSE)

\* a / b on Python ints (true division is correctly rounded), b > 0
FDivRound(x, negative) ==
    IF negative THEN FNeg(FRound(x.q, -(6 * LimbBits), x.r # 0))
    ELSE FRound(x.q, -(6 * LimbBits), x.r # 0)

FDivInt(a, b) ==
    FDivRound(BigDivSmall(BigShl(BigFromInt(IF a < 0 THEN -a ELSE a),
                                 6 * LimbBits), b),
              a < 0)

\* x * k for a double x >= 0 and a Python int 0 <= k < LimbBase
FMulInt(x, k) ==
    IF x.s = 0 \/ k = 0 THEN FZero ELSE FRound(BigMulSmall(x.m, k), x.e, FALSE)

\* 1 + x for a double x >= 0
FAddOne(x) ==
    IF x.s = 0 THEN FFromInt(1)
    ELSE IF x.e >= 0 THEN FRound(BigAdd(BigShl(x.m, x.e), <<1>>), 0, FALSE)
    ELSE IF -x.e > 2 * MantBits + 4 THEN FFromInt(1)
    ELSE FRound(BigAdd(x.m, BigShl(<<1>>, -x.e)), x.e, FALSE)

\* x - 1 for a double x >= 1
FSubOne(x) ==
    IF x.e >= 0 THEN FRound(BigSub(BigShl(x.m, x.e), <<1>>), 0, FALSE)
    ELSE FRound(BigSub(x.m, BigShl(<<1>>, -x.e)), x.e, FALSE)

\* int(x) for a double x >= 0
FTrunc(x) ==
    IF x.s = 0 THEN 0
    ELSE IF x.e >= 0 THEN BigToInt(BigShl(x.m, x.e))
    ELSE BigToInt(BigShr(x.m, -x.e).q)

\* int(x // 2) for a double x >= 0
FFloorHalf(x) ==
    IF x.s = 0 THEN 0
    ELSE IF x.e >= 1 THEN BigToInt(BigShl(x.m, x.e - 1))
    ELSE BigToInt(BigShr(x.m, 1 - x.e).q)

\* -1, 0, 1 as x < y, x = y, x > y
FCmp(x, y) ==
    IF x.s # y.s THEN (IF x.s < y.s THEN -1 ELSE 1)
    ELSE IF x.s = 0 THEN 0
    ELSE IF x.e # y.e THEN (IF x.e < y.e THEN -x.s ELSE x.s)
    ELSE x.s * BigCmp(x.m, y.m)

FGreater(x, y) == FCmp(x, y) = 1
FLess(x, y) == FCmp(x, y) = -1

----------------------------------------------------------------------------
(* Sizes of the inputs the model explores.                                  *)

MaxSrc == 12          \* source images are 1..MaxSrc pixels on each axis
MaxTarget == 3        \* small target sizes, next to the program's defaults
MaxBlur == 2          \* blur kernels -1..MaxBlur

DefaultWidth == 1920
DefaultHeight == 1080

\* what cv2.imread finds at a path: nothing decodable, or a w x h image
Unreadable == [readable |-> FALSE, w |-> 0, h |-> 0]
\* sizes of larger sources: of the target's 16:9 ratio, and wide for it
LargerSources == {<<176, 99>>, <<952, 535>>}
Images ==
    {Unreadable} \cup
    {[readable |-> TRUE, w |-> w, h |-> h] : w \in 1..MaxSrc, h \in 1..MaxSrc}
    \cup {[readable |-> TRUE, w |-> s[1], h |-> s[2]] : s \in LargerSources}
TargetWidths == (-1..MaxTarget) \cup {DefaultWidth}
TargetHeights == (-1..MaxTarget) \cup {DefaultHeight}
Blurs == -1..MaxBlur

MaxRate == 3          \* frame rates -1..MaxRate
MaxDuration == 3      \* durations -1..MaxDuration, in seconds
DefaultRate == 25
DefaultDuration == 10
DefaultZoom == 4      \* 0.0004, in units of 1/ZoomDen

MaxAgain == 3         \* frames consumed, at most, before a second call
MaxFiles == 2         \* image files found in the input directory
MaxArgRate == 2       \* --fps of a batch run: 0 or MaxArgRate

\* zoom rates are decimal fractions zn/ZoomDen, as typed on the command line
ZoomDen == 10^4
ZoomNums == {-1, 0, DefaultZoom, 999, 1000, 1001}
Zoom(zn) == FDivInt(zn, ZoomDen)

----------------------------------------------------------------------------
(* numpy and OpenCV behaviour scaleAndBlur and frames_from_image rely on.   *)

Min(a, b) == IF a < b THEN a ELSE b
Max(a, b) == IF a > b THEN a ELSE b

\* position of a slice bound in an axis of length dim (negative bounds count
\* from the end, all bounds are clipped to the axis)
SliceBound(k, dim) == IF k < 0 THEN Max(k + dim, 0) ELSE Min(k, dim)

\* number of elements a[start:stop] selects on an axis of length dim
SliceLen(start, stop, dim) ==
    Max(0, SliceBound(stop, dim) - SliceBound(start, dim))

\* a[...] = b succeeds when b broadcasts to the selected region
Broadcasts(srcLen, regionLen) == srcLen = regionLen \/ srcLen = 1

\* cv2.resize(img, (w, h)) needs a non-empty destination size
ResizeOk(w, h) == w > 0 /\ h > 0

----------------------------------------------------------------------------
(* scaleAndBlur                                                             *)

NoCanvas ==
    [called |-> FALSE, raised |-> "none", msg |-> "none", imread |-> FALSE,
     wide |-> FALSE, scaleFactor |-> FZero, invScaleFactor |-> FZero,
     upscale |-> FALSE,
     newData |-> <<0, 0>>, invNewData |-> <<0, 0>>,
     x_offset |-> 0, y_offset |-> 0, pasteRows |-> 0, pasteCols |-> 0,
     shape |-> <<0, 0, 0>>]

Raised(kind, msg, imread) ==
    [NoCanvas EXCEPT !.called = TRUE, !.raised = kind, !.msg = msg,
                     !.imread = imread]

\* lines 97-101: paste the overlay on the blurred cover, crop to the target
Pasted(tw, th, c, pasteRows, pasteCols) ==
    IF ~(Broadcasts(c.newData[2], pasteRows) /\ Broadcasts(c.newData[1], pasteCols))
    THEN [c EXCEPT !.raised = "ValueError", !.msg = "could not broadcast",
                   !.pasteRows = pasteRows, !.pasteCols = pasteCols]
    ELSE [c EXCEPT !.pasteRows = pasteRows, !.pasteCols = pasteCols,
                   !.shape = <<SliceLen(0, th, c.invNewData[2]),
                               SliceLen(0, tw, c.invNewData[1]), 3>>]

\* lines 80-97: both resizes, then the region blurred_img[y:y+h, x:x+w], where
\* blurred_img has the cover's size (rows invNewData[2], columns invNewData[1])
Resized(tw, th, c) ==
    IF ~ResizeOk(c.newData[1], c.newData[2])
       \/ ~ResizeOk(c.invNewData[1], c.invNewData[2])
    THEN [c EXCEPT !.raised = "cv2.error", !.msg = "resize"]
    ELSE Pasted(tw, th, c,
                SliceLen(c.y_offset, c.y_offset + c.newData[2], c.invNewData[2]),
                SliceLen(c.x_offset, c.x_offset + c.newData[1], c.invNewData[1]))

\* the sizes and offsets as they would be with the overlay pasted at the top
\* in both branches
ScaledTop(iw, ih, tw, th, wide, scaleFactor, invScaleFactor) ==
    Resized(tw, th,
        [NoCanvas EXCEPT
            !.called = TRUE, !.imread = TRUE, !.wide = wide,
            !.scaleFactor = scaleFactor, !.invScaleFactor = invScaleFactor,
            !.upscale = FGreater(scaleFactor, FFromInt(1)),
            !.newData = <<FTrunc(FMulInt(scaleFactor, iw)),
                          FTrunc(FMulInt(scaleFactor, ih))>>,
            !.invNewData = <<FTrunc(FMulInt(invScaleFactor, iw)),
                             FTrunc(FMulInt(invScaleFactor, ih))>>,
            !.x_offset = (tw \div 2) - FFloorHalf(FMulInt(scaleFactor, iw)),
            !.y_offset = 0])

\* lines 76-78 and 90-95: sizes of the overlay and the cover, and the offsets
Scaled(iw, ih, tw, th, wide, scaleFactor, invScaleFactor) ==
    Resized(tw, th,
        [NoCanvas EXCEPT
            !.called = TRUE, !.imread = TRUE, !.wide = wide,
            !.scaleFactor = scaleFactor, !.invScaleFactor = invScaleFactor,
            !.upscale = FGreater(scaleFactor, FFromInt(1)),
            !.newData = <<FTrunc(FMulInt(scaleFactor, iw)),
                          FTrunc(FMulInt(scaleFactor, ih))>>,
            !.invNewData = <<FTrunc(FMulInt(invScaleFactor, iw)),
                             FTrunc(FMulInt(invScaleFactor, ih))>>,
            !.x_offset = (tw \div 2) - FFloorHalf(FMulInt(scaleFactor, iw)),
            !.y_offset = IF wide
                         THEN (th \div 2) - FFloorHalf(FMulInt(scaleFactor, ih))
                         ELSE 0])

\* the scale factors as they would be with the two branches exchanged
ClassifiedExchanged(iw, ih, tw, th, wide) ==
    IF wide
    THEN Scaled(iw, ih, tw, th, wide, FDivInt(th, ih), FDivInt(tw, iw))
    ELSE Scaled(iw, ih, tw, th, wide, FDivInt(tw, iw), FDivInt(th, ih))

\* lines 69-74: the overlay fits the image inside the target, the cover fills it
Classified(iw, ih, tw, th, wide) ==
    IF wide
    THEN Scaled(iw, ih, tw, th, wide, FDivInt(tw, iw), FDivInt(th, ih))
    ELSE Scaled(iw, ih, tw, th, wide, FDivInt(th, ih), FDivInt(tw, iw))

\* the composition as it would be with equal ratios taken as wide
CompositeWideOrEqual(iw, ih, tw, th) ==
    Classified(iw, ih, tw, th, ~FLess(FDivInt(iw, ih), FDivInt(tw, th)))

\* lines 60-101: the image was decoded, iw x ih pixels;
\* wide is initRatio > idealRatio
Composite(iw, ih, tw, th) ==
    Classified(iw, ih, tw, th, FGreater(FDivInt(iw, ih), FDivInt(tw, th)))

\* scaleAndBlur as it would be with the image read before the checks
ScaleAndBlurReadFirst(img, targetWidth, targetHeight, targetBlur) ==
    IF ~img.readable
    THEN Raised("ValueError", "Failed to load image", TRUE)
    ELSE IF targetWidth <= 0 \/ targetHeight <= 0
    THEN Raised("ValueError", "Target dimensions must be positive", TRUE)
    ELSE IF targetBlur <= 0
    THEN Raised("ValueError", "Target blur must be positive", TRUE)
    ELSE IF targetBlur % 2 = 0
    THEN Raised("ValueError", "Target blur must be odd", TRUE)
    ELSE Composite(img.w, img.h, targetWidth, targetHeight)

\* scaleAndBlur as it would be with the failed load left to the resize
ScaleAndBlurNoLoadCheck(img, targetWidth, targetHeight, targetBlur) ==
    IF targetWidth <= 0 \/ targetHeight <= 0
    THEN Raised("ValueError", "Target dimensions must be positive", FALSE)
    ELSE IF targetBlur <= 0
    THEN Raised("ValueError", "Target blur must be positive", FALSE)
    ELSE IF targetBlur % 2 = 0
    THEN Raised("ValueError", "Target blur must be odd", FALSE)
    ELSE IF ~img.readable
    THEN Raised("AttributeError", "NoneType has no shape", TRUE)
    ELSE Composite(img.w, img.h, targetWidth, targetHeight)

\* lines 45-58, then the composition
ScaleAndBlur(img, targetWidth, targetHeight, targetBlur) ==
    IF targetWidth <= 0 \/ targetHeight <= 0
    THEN Raised("ValueError", "Target dimensions must be positive", FALSE)
    ELSE IF targetBlur <= 0
    THEN Raised("ValueError", "Target blur must be positive", FALSE)
    ELSE IF targetBlur % 2 = 0
    THEN Raised("ValueError", "Target blur must be odd", FALSE)
    ELSE IF ~img.readable
    THEN Raised("ValueError", "Failed to load image", TRUE)
    ELSE Composite(img.w, img.h, targetWidth, targetHeight)

----------------------------------------------------------------------------
(* frames_from_image                                                        *)

\* the checks as they would be with the upper zoom limit excluded
ValidateFramesOpenLimit(frameRate, imgDuration, zoomRate, targetWidth, targetHeight) ==
    IF frameRate <= 0 THEN "Frame rate must be positive"
    ELSE IF imgDuration <= 0 THEN "Image duration must be positive"
    ELSE IF FLess(zoomRate, FZero) \/ ~FLess(zoomRate, FDivInt(1, 10))
    THEN "Zoom rate must be between 0 and 0.1"
    ELSE IF targetWidth <= 0 \/ targetHeight <= 0
    THEN "Target dimensions must be positive"
    ELSE "ok"

\* lines 161-172: the message of the first failing check, or "ok"
ValidateFrames(frameRate, imgDuration, zoomRate, targetWidth, targetHeight) ==
    IF frameRate <= 0 THEN "Frame rate must be positive"
    ELSE IF imgDuration <= 0 THEN "Image duration must be positive"
    ELSE IF FLess(zoomRate, FZero) \/ FGreater(zoomRate, FDivInt(1, 10))
    THEN "Zoom rate must be between 0 and 0.1"
    ELSE IF targetWidth <= 0 \/ targetHeight <= 0
    THEN "Target dimensions must be positive"
    ELSE "ok"

\* the frame count as it would be with an inclusive range
FrameTotalInclusive(frameRate, imgDuration) == frameRate * imgDuration + 1

\* line 174
FrameTotal(frameRate, imgDuration) == frameRate * imgDuration

\* the crop taken from a canvas that is not enlarged for the frame
FrameCropNoEnlarge(i, targetWidth, targetHeight, currentScale, horizontalOffset, verticalOffset) ==
    [i |-> i, currentScale |-> currentScale,
     horizontalOffset |-> horizontalOffset,
     verticalOffset |-> verticalOffset,
     currentDimensions |-> <<targetWidth, targetHeight>>,
     rows |-> <<horizontalOffset, targetHeight + horizontalOffset>>,
     cols |-> <<verticalOffset, targetWidth + verticalOffset>>,
     shape |-> <<SliceLen(horizontalOffset, targetHeight + horizontalOffset,
                          targetHeight),
                 SliceLen(verticalOffset, targetWidth + verticalOffset,
                          targetWidth), 3>>]

\* lines 187-193: the size the canvas is resized to and the crop taken from it
FrameCrop(i, targetWidth, targetHeight, currentScale, horizontalOffset, verticalOffset) ==
    [i |-> i, currentScale |-> currentScale,
     horizontalOffset |-> horizontalOffset,
     verticalOffset |-> verticalOffset,
     currentDimensions |-> <<targetWidth + verticalOffset * 2,
                             targetHeight + horizontalOffset * 2>>,
     rows |-> <<horizontalOffset, targetHeight + horizontalOffset>>,
     cols |-> <<verticalOffset, targetWidth + verticalOffset>>,
     shape |-> <<SliceLen(horizontalOffset, targetHeight + horizontalOffset,
                          targetHeight + horizontalOffset * 2),
                 SliceLen(verticalOffset, targetWidth + verticalOffset,
                          targetWidth + verticalOffset * 2), 3>>]

\* the offsets as their names suggest: horizontal from the width
FrameOffsetsSwapped(i, targetWidth, targetHeight, currentScale) ==
    FrameCrop(i, targetWidth, targetHeight, currentScale,
              FTrunc(FMulInt(FSubOne(currentScale), targetWidth)),
              FTrunc(FMulInt(FSubOne(currentScale), targetHeight)))

\* lines 184-185
FrameOffsets(i, targetWidth, targetHeight, currentScale) ==
    FrameCrop(i, targetWidth, targetHeight, currentScale,
              FTrunc(FMulInt(FSubOne(currentScale), targetHeight)),
              FTrunc(FMulInt(FSubOne(currentScale), targetWidth)))

\* the window as it would be zooming out from a scale reached after 300 frames
FrameWindowZoomOut(i, zoomRate, targetWidth, targetHeight) ==
    FrameOffsets(i, targetWidth, targetHeight, FAddOne(FMulInt(zoomRate, 300 - i)))

\* the window as it would be with the scale (1 + i) * zoomRate
FrameWindowScaledIndex(i, zoomRate, targetWidth, targetHeight) ==
    FrameOffsets(i, targetWidth, targetHeight, FMulInt(zoomRate, 1 + i))

\* lines 182-193: what iteration i resizes the canvas to and crops from it
FrameWindow(i, zoomRate, targetWidth, targetHeight) ==
    FrameOffsets(i, targetWidth, targetHeight, FAddOne(FMulInt(zoomRate, i)))

NoFrames ==
    [frameRate |-> 0, imgDuration |-> 0, zn |-> 0, targetWidth |-> 0,
     targetHeight |-> 0, show_progress |-> FALSE]

FrameInputs ==
    [frameRate : -1..MaxRate, imgDuration : -1..MaxDuration, zn : ZoomNums,
     targetWidth : TargetWidths, targetHeight : TargetHeights,
     show_progress : BOOLEAN]
    \cup
    [frameRate : {DefaultRate}, imgDuration : {DefaultDuration},
     zn : {DefaultZoom}, targetWidth : {DefaultWidth},
     targetHeight : {DefaultHeight}, show_progress : BOOLEAN]

----------------------------------------------------------------------------
(* __main__: what the batch run is started with                             *)

\* names os.listdir can return that pass the SUPPORTED_FORMATS filter
Stems == {"a", "b"}
Exts == {".jpg", ".png"}
FileNames == [stem : Stems, ext : Exts]

\* lines 418-423: image_files, distinct names in directory order
FileLists ==
    {f \in UNION {[1..n -> FileNames] : n \in 0..MaxFiles} :
        \A j, k \in DOMAIN f : j # k => f[j] # f[k]}

\* what cv2.imread can find behind a name during a batch run
BatchImages ==
    {Unreadable, [readable |-> TRUE, w |-> 4, h |-> 3],
     [readable |-> TRUE, w |-> MaxSrc, h |-> 1]}

\* parse_arguments: the values the claims are about
ArgSets ==
    [width : {0, MaxTarget}, height : {0, MaxTarget}, blur : 0..MaxBlur,
     fps : {0, MaxArgRate}, duration : {0, 1}, zoom : {-1, DefaultZoom, 1001},
     extension : {"mxf", "MXF", "Avi"}, verbose : BOOLEAN, quiet : BOOLEAN]

\* lines 262-294: get_codec_suggestions, the codecs offered for an extension
\* the spellings extension.lower() maps to each key of the table
Spellings ==
    [avi |-> {"AVI", "AVi", "AvI", "Avi", "aVI", "aVi", "avI", "avi"},
     mxf |-> {"MXF", "MXf", "MxF", "Mxf", "mXF", "mXf", "mxF", "mxf"},
     mkv |-> {"MKV", "MKv", "MkV", "Mkv", "mKV", "mKv", "mkV", "mkv"},
     mp4 |-> {"MP4", "Mp4", "mP4", "mp4"}]

\* line 294: the key of the table extension.lower() is, "none" when it is none
TableKey(extension) ==
    IF extension \in Spellings.avi THEN "avi"
    ELSE IF extension \in Spellings.mxf THEN "mxf"
    ELSE IF extension \in Spellings.mkv THEN "mkv"
    ELSE IF extension \in Spellings.mp4 THEN "mp4"
    ELSE "none"

CodecSuggestions(extension) ==
    IF TableKey(extension) = "avi" THEN <<"xvid", "mjpg", "divx">>
    ELSE IF TableKey(extension) = "mxf" THEN <<"xdv7", "mp4v">>
    ELSE IF TableKey(extension) = "mkv" THEN <<"x264", "xvid">>
    ELSE <<"mp4v", "avc1", "x264">>

\* lines 513-515: the output path of an image file, inside args.output
OutputPath(file, extension) == <<file.stem, "_video.", extension>>
OutputPaths == {OutputPath(f, a.extension) : f \in FileNames, a \in ArgSets}

NoFile == [exists |-> FALSE, frames |-> 0, owner |-> 0]

----------------------------------------------------------------------------
VARIABLES
    cIn,      \* scaleAndBlur: the arguments of the call
    cOut,     \* scaleAndBlur: what the call returned or raised
    gIn,      \* frames_from_image: the arguments the generator was made with
    gPc,      \* the generator: "none", "created", "suspended", "done", "raised"
    gErr,     \* the message of the error the generator raised
    gFrames,  \* the frames yielded so far, as windows on the canvas
    gPrev,    \* the generator an earlier call returned, as it was left
    gImage,   \* the canvas array the generator was given: shape and content
    args,     \* the parsed command line
    files,    \* image_files
    pc,       \* where __main__ is
    idx,      \* the image the loop is at, 0 before the first
    out,      \* the image whose VideoWriter the name `out` is bound to, or 0
    writers,  \* per image: "none", "open", "unopened", "released"
    disk,     \* per output path: does the file exist, frames in it, who made it
    outcome,  \* per image: how its pipeline ended, or "pending"
    success_count,
    error_count,
    probes,   \* calls of validate_codec
    exitCode, \* -1 while running
    sJob,     \* stitch: the job, its inputs in order and its output
    sPc,      \* stitch: the state of the job's state machine
    sIdx,     \* stitch: the input being streamed, 0 before the first
    sReader,  \* stitch: the reader of that input: "none", "open", "validated"
    sPos,     \* stitch: frames read from that input so far
    sOpened,  \* stitch: the inputs a reader was asked for, in order
    sOut,     \* stitch: the output artifact: does it exist, is it open, frames
    sErr,     \* stitch: the failure found, before it reaches the caller
    sResult,  \* stitch: what the caller got: "none", "true" or an error kind
    sReaders, \* stitch: per input, its reader: "none", "open" or "closed"
    vIn,      \* validate_codec: the codec and what the system answers
    vOut      \* validate_codec: what the call returned and left behind

cVars == <<cIn, cOut>>
gVars == <<gIn, gPc, gErr, gFrames, gPrev, gImage>>
mVars == <<args, files, pc, idx, out, writers, disk, outcome, success_count,
           error_count, probes, exitCode>>
sVars == <<sJob, sPc, sIdx, sReader, sPos, sOpened, sOut, sErr, sResult,
           sReaders>>
vVars == <<vIn, vOut>>
vars == <<cVars, gVars, mVars, sVars, vVars>>

NoCall == [img |-> Unreadable, targetWidth |-> 0, targetHeight |-> 0,
           targetBlur |-> 0]
NoArgs == [width |-> 0, height |-> 0, blur |-> 0, fps |-> 0, duration |-> 0,
           zoom |-> 0, extension |-> "mxf", verbose |-> FALSE, quiet |-> FALSE]
Pending == [kind |-> "pending", msg |-> "none"]
NoPrev == [pc |-> "none", err |-> "none", frames |-> <<>>]

NoJob == [videos |-> <<>>, output_path |-> "", encoder |-> FALSE]
NoError == [kind |-> "none", input |-> 0]
NoOutput == [exists |-> FALSE, open |-> FALSE, frames |-> <<>>]
StitchIdle ==
    /\ sJob = NoJob /\ sPc = "none" /\ sIdx = 0 /\ sReader = "none" /\ sPos = 0
    /\ sOpened = <<>> /\ sOut = NoOutput /\ sErr = NoError /\ sResult = "none"
    /\ sReaders = <<>>
NoEnv == [codecLen |-> 0, opens |-> FALSE, writeRaises |-> FALSE,
          stderr |-> {}, size |-> 0, removeRefused |-> FALSE,
          tmpFile |-> "created"]
NoProbe == [called |-> FALSE, raised |-> "none", result |-> "none",
            path |-> "none", writer |-> "none", stderr |-> "old",
            tmp |-> FALSE, removeRaised |-> FALSE]
CodecIdle == vIn = NoEnv /\ vOut = NoProbe
ComposeIdle == cIn = NoCall /\ cOut = NoCanvas
NoImage == [shape |-> <<0, 0, 0>>, content |-> "none"]
\* an array of the given shape holding the composite scaleAndBlur made
Canvas(shape) == [shape |-> shape, content |-> "canvas"]
FramesIdle ==
    /\ gIn = NoFrames /\ gPc = "none" /\ gErr = "none" /\ gFrames = <<>>
    /\ gPrev = NoPrev /\ gImage = NoImage
MainIdle ==
    /\ args = NoArgs /\ files = <<>> /\ pc = "none" /\ idx = 0 /\ out = 0
    /\ writers = <<>> /\ disk = [p \in OutputPaths |-> NoFile]
    /\ outcome = <<>> /\ success_count = 0 /\ error_count = 0
    /\ probes = 0 /\ exitCode = -1

----------------------------------------------------------------------------
(* SpecCompose: one call of scaleAndBlur on every input                     *)

ComposeInit ==
    /\ cIn \in [img : Images, targetWidth : TargetWidths,
                targetHeight : TargetHeights, targetBlur : Blurs]
    /\ cOut = NoCanvas
    /\ FramesIdle
    /\ MainIdle
    /\ StitchIdle
    /\ CodecIdle

Compose ==
    /\ pc = "none"
    /\ ~cOut.called
    /\ cOut' = ScaleAndBlur(cIn.img, cIn.targetWidth, cIn.targetHeight, cIn.targetBlur)
    /\ UNCHANGED <<cIn, gVars, mVars, sVars, vVars>>

SpecCompose == ComposeInit /\ [][Compose]_vars

----------------------------------------------------------------------------
(* SpecFrames: one generator made by frames_from_image, driven by next()    *)

\* the body runs up to the first yield only when next() is first called
GenRaises ==
    /\ gPc = "created"
    /\ ValidateFrames(gIn.frameRate, gIn.imgDuration, Zoom(gIn.zn),
                      gIn.targetWidth, gIn.targetHeight) # "ok"

GenYields ==
    /\ gPc \in {"created", "suspended"}
    /\ ~GenRaises
    /\ Len(gFrames) < FrameTotal(gIn.frameRate, gIn.imgDuration)

GenStops ==
    /\ gPc \in {"created", "suspended"}
    /\ ~GenRaises
    /\ Len(gFrames) >= FrameTotal(gIn.frameRate, gIn.imgDuration)

\* next() runs lines 161-172 and one of the checks fails
GenRaise ==
    /\ GenRaises
    /\ gPc' = "raised"
    /\ gErr' = ValidateFrames(gIn.frameRate, gIn.imgDuration, Zoom(gIn.zn),
                              gIn.targetWidth, gIn.targetHeight)
    /\ UNCHANGED <<gIn, gFrames, gPrev, gImage>>

\* the generator as it would be with a frame counter shared between calls
GenYieldSharedCounter ==
    /\ GenYields
    /\ gPc' = "suspended"
    /\ gFrames' = Append(gFrames,
                         FrameWindow(Len(gPrev.frames) + Len(gFrames), Zoom(gIn.zn),
                                     gIn.targetWidth, gIn.targetHeight))
    /\ UNCHANGED <<gIn, gErr, gPrev, gImage>>

\* the generator as it would be resizing into the array it was given
GenYieldInPlace ==
    /\ GenYields
    /\ gPc' = "suspended"
    /\ gFrames' = Append(gFrames, FrameWindow(Len(gFrames), Zoom(gIn.zn),
                                              gIn.targetWidth, gIn.targetHeight))
    /\ gImage' = [shape |-> <<gFrames'[Len(gFrames')].currentDimensions[2],
                              gFrames'[Len(gFrames')].currentDimensions[1], 3>>,
                  content |-> "frame"]
    /\ UNCHANGED <<gIn, gErr, gPrev>>

\* next() runs to the yield of line 194
GenYield ==
    /\ GenYields
    /\ gPc' = "suspended"
    /\ gFrames' = Append(gFrames, FrameWindow(Len(gFrames), Zoom(gIn.zn),
                                              gIn.targetWidth, gIn.targetHeight))
    /\ UNCHANGED <<gIn, gErr, gPrev, gImage>>

\* next() finds range(frameTotal) exhausted: StopIteration
GenStop ==
    /\ GenStops
    /\ gPc' = "done"
    /\ UNCHANGED <<gIn, gErr, gFrames, gPrev, gImage>>

\* frames_from_image is called again with the same arguments: a new generator,
\* whatever became of the one the earlier call returned
GenAgain ==
    /\ gPc \in {"suspended", "done", "raised"}
    /\ gPrev' = [pc |-> gPc, err |-> gErr, frames |-> gFrames]
    /\ gPc' = "created"
    /\ gErr' = "none"
    /\ gFrames' = <<>>
    /\ UNCHANGED <<gIn, gImage>>

FramesInit ==
    /\ gIn \in FrameInputs
    /\ gPc = "created"
    /\ gErr = "none"
    /\ gFrames = <<>>
    /\ gPrev = NoPrev
    /\ gImage = Canvas(<<Max(gIn.targetHeight, 1), Max(gIn.targetWidth, 1), 3>>)
    /\ ComposeIdle
    /\ MainIdle
    /\ StitchIdle
    /\ CodecIdle

NextRaise == pc = "none" /\ GenRaise /\ UNCHANGED <<cVars, mVars, sVars, vVars>>
NextYield == pc = "none" /\ GenYield /\ UNCHANGED <<cVars, mVars, sVars, vVars>>
NextStop == pc = "none" /\ GenStop /\ UNCHANGED <<cVars, mVars, sVars, vVars>>
NextAgain ==
    /\ pc = "none" /\ gPrev = NoPrev
    /\ Len(gFrames) <= MaxAgain
    /\ GenAgain
    /\ UNCHANGED <<cVars, mVars, sVars, vVars>>

FramesNext == NextRaise \/ NextYield \/ NextStop \/ NextAgain

SpecFrames == FramesInit /\ [][FramesNext]_vars

----------------------------------------------------------------------------
(* validate_codec, lines 196-260                                           *)

MaxCodecLen == 5      \* codec strings of 0..MaxCodecLen characters
FourccLen == 4        \* cv2.VideoWriter_fourcc takes exactly four characters
SizeLimit == 100      \* a test file must be larger than this, in bytes

\* what OpenCV may have printed to the captured stderr, as the phrases looked for
StderrPhrases == {"tag", "not found", "unknown", "codec"}

\* the codec, and what the system answers during the probe: does the writer
\* open, does writing the test frame raise, what is on stderr, the size of
\* the test file afterwards (-1: no file at the path), and whether the system
\* refuses to remove the file (it is still open in a writer on a system that
\* does not remove open files, or the directory does not allow it); and what
\* tempfile.NamedTemporaryFile does with the suffix made of the extension: it
\* creates the file, or raises OSError (an extension with a path separator,
\* a temporary directory that takes no file) or ValueError (a NUL character)
CodecEnvs ==
    [codecLen : 0..MaxCodecLen, opens : BOOLEAN, writeRaises : BOOLEAN,
     stderr : SUBSET StderrPhrases, size : {-1, 0, SizeLimit, SizeLimit + 1},
     removeRefused : BOOLEAN, tmpFile : {"created", "OSError", "ValueError"}]

\* how the try block of lines 222-250 ended; sys.stderr is still the capture
\* and the temporary file is still there unless the writer left none
Probed(result, path, writer, tmp) ==
    [called |-> TRUE, raised |-> "none", result |-> result, path |-> path,
     writer |-> writer, stderr |-> "captured", tmp |-> tmp,
     removeRaised |-> FALSE]

\* the size test as it would be with 100 bytes accepted
FileOkInclusive(size) == size >= SizeLimit

\* line 249: os.path.exists(tmp_path) and os.path.getsize(tmp_path) > 100
FileOk(size) == size > SizeLimit

\* lines 242-246
StderrBad(stderr) ==
    \/ {"tag", "not found"} \subseteq stderr
    \/ {"unknown", "codec"} \subseteq stderr

\* lines 222-252: the probe, with `except Exception: return False`
CodecTry(env) ==
    IF env.codecLen # FourccLen
    THEN Probed(FALSE, "exception", "none", TRUE)
    ELSE IF ~env.opens
    THEN Probed(FALSE, "not opened", "released", env.size >= 0)
    ELSE IF env.writeRaises
    THEN Probed(FALSE, "exception", "open", env.size >= 0)
    ELSE IF StderrBad(env.stderr)
    THEN Probed(FALSE, "codec error", "released", env.size >= 0)
    ELSE IF FileOk(env.size)
    THEN Probed(TRUE, "ok", "released", TRUE)
    ELSE Probed(FALSE, "too small", "released", env.size >= 0)

\* lines 253-260: sys.stderr is restored, then os.remove(tmp_path); it raises
\* when there is no file or when the system refuses, the bare except ignores
\* either, and a refused file stays; a writer that was not released is
\* finalized when the locals go with the return, after the clean-up
CodecFinally(r, removeRefused) ==
    [r EXCEPT !.stderr = "old",
              !.tmp = r.tmp /\ removeRefused,
              !.removeRaised = ~r.tmp \/ removeRefused,
              !.writer = IF @ = "open" THEN "released" ELSE @]

\* line 215, before the try: the exception of NamedTemporaryFile leaves
\* validate_codec; nothing is returned, sys.stderr was not replaced yet, there
\* is no file and no writer
TempfileRaises(kind) ==
    [NoProbe EXCEPT !.called = TRUE, !.raised = kind, !.path = "tempfile"]

\* lines 214-260
ValidateCodec(env) ==
    IF env.tmpFile # "created" THEN TempfileRaises(env.tmpFile)
    ELSE CodecFinally(CodecTry(env), env.removeRefused)

\* what the probes of a batch run meet: a four-character codec whose writer
\* opens and writes a large enough file or does not open, and a temporary
\* file that is created or not
BatchEnvs ==
    [codecLen : {FourccLen}, opens : BOOLEAN, writeRaises : {FALSE},
     stderr : {{}}, size : {SizeLimit + 1}, removeRefused : {FALSE},
     tmpFile : {"created", "OSError"}]

----------------------------------------------------------------------------
(* Spec: a batch run of __main__, lines 373-584                             *)

\* the program is started: nothing parsed, listed, probed or written yet
MainInit ==
    /\ args = NoArgs
    /\ files = <<>>
    /\ pc = "parse_arguments"
    /\ idx = 0
    /\ out = 0
    /\ writers = <<>>
    /\ disk = [p \in OutputPaths |-> NoFile]
    /\ outcome = <<>>
    /\ success_count = 0
    /\ error_count = 0
    /\ probes = 0
    /\ exitCode = -1
    /\ ComposeIdle
    /\ FramesIdle
    /\ StitchIdle
    /\ CodecIdle

\* the except clauses as they would be leaving the loop at the first error
HandledStops(kind, msg) ==
    /\ outcome' = [outcome EXCEPT ![idx] = [kind |-> kind, msg |-> msg]]
    /\ error_count' = error_count + 1
    /\ pc' = "exited"

\* the except clauses of lines 546-575: count the error, go on with the loop
Handled(kind, msg) ==
    /\ outcome' = [outcome EXCEPT ![idx] = [kind |-> kind, msg |-> msg]]
    /\ error_count' = error_count + 1
    /\ pc' = "loop"

\* the except clause an exception lands in
Handler(raised) ==
    IF raised \in {"ValueError", "RuntimeError"} THEN raised ELSE "Exception"

\* line 375: parse_arguments returns the namespace
ParseArguments ==
    /\ pc = "parse_arguments"
    /\ args' \in ArgSets
    /\ pc' = "directories"
    /\ UNCHANGED <<vVars, sVars, cVars, gVars, files, idx, out, writers, disk, outcome,
                   success_count, error_count, probes, exitCode>>

\* line 375: argparse ends the program itself, with status 2 on a value it
\* rejects and status 0 after --help
ParseExits ==
    /\ pc = "parse_arguments"
    /\ exitCode' \in {0, 2}
    /\ pc' = "exited"
    /\ UNCHANGED <<vVars, sVars, cVars, gVars, args, files, idx, out, writers, disk, outcome,
                   success_count, error_count, probes>>

\* lines 378-380: --verbose together with --quiet
FlagsConflict ==
    /\ pc = "directories"
    /\ args.verbose /\ args.quiet
    /\ pc' = "exited"
    /\ exitCode' = 1
    /\ UNCHANGED <<vVars, sVars, cVars, gVars, args, files, idx, out, writers, disk, outcome,
                   success_count, error_count, probes>>

\* lines 402-404: the input directory does not exist
InputMissing ==
    /\ pc = "directories"
    /\ ~(args.verbose /\ args.quiet)
    /\ pc' = "exited"
    /\ exitCode' = 1
    /\ UNCHANGED <<vVars, sVars, cVars, gVars, args, files, idx, out, writers, disk, outcome,
                   success_count, error_count, probes>>

\* lines 407-414: the output directory does not exist and os.makedirs raises
OutputDirFails ==
    /\ pc = "directories"
    /\ ~(args.verbose /\ args.quiet)
    /\ pc' = "exited"
    /\ exitCode' = 1
    /\ UNCHANGED <<vVars, sVars, cVars, gVars, args, files, idx, out, writers, disk, outcome,
                   success_count, error_count, probes>>

\* lines 416-423: both directories are there; the files of the input
\* directory with a supported extension, in the order os.listdir gives them
ListImages ==
    /\ pc = "directories"
    /\ ~(args.verbose /\ args.quiet)
    /\ files' \in FileLists
    /\ writers' = [j \in DOMAIN files' |-> "none"]
    /\ outcome' = [j \in DOMAIN files' |-> Pending]
    /\ pc' = "start"
    /\ UNCHANGED <<vVars, sVars, cVars, gVars, args, idx, out, disk,
                   success_count, error_count, probes, exitCode>>

\* lines 425-428
NoImages ==
    /\ pc = "start"
    /\ files = <<>>
    /\ pc' = "exited"
    /\ exitCode' = 0
    /\ UNCHANGED <<vVars, sVars, cVars, gVars, args, files, idx, out, writers, disk, outcome,
                   success_count, error_count, probes>>

\* lines 441, 461-465: validate_codec finds the codec usable; vIn and vOut
\* keep the call of validate_codec that decided how the validation ended
CodecUsable ==
    /\ pc = "start"
    /\ files # <<>>
    /\ \E env \in BatchEnvs :
          /\ ValidateCodec(env).raised = "none"
          /\ ValidateCodec(env).result
          /\ vIn' = env
          /\ vOut' = ValidateCodec(env)
    /\ probes' = probes + 1
    /\ pc' = "loop"
    /\ UNCHANGED <<sVars, cVars, gVars, args, files, idx, out, writers, disk, outcome,
                   success_count, error_count, exitCode>>

\* lines 441-460: it does not; every suggested codec is probed, then exit(1)
CodecUnusable ==
    /\ pc = "start"
    /\ files # <<>>
    /\ \E env \in BatchEnvs :
          /\ ValidateCodec(env).raised = "none"
          /\ ~ValidateCodec(env).result
          /\ vIn' = env
          /\ vOut' = ValidateCodec(env)
    /\ probes' = probes + 1 + Len(CodecSuggestions(args.extension))
    /\ pc' = "exited"
    /\ exitCode' = 1
    /\ UNCHANGED <<sVars, cVars, gVars, args, files, idx, out, writers, disk, outcome,
                   success_count, error_count>>

\* lines 441 and 452: validate_codec raises, in the call for the requested
\* codec or, that one reported unusable, in the call for one of the suggested
\* codecs; nothing catches it: traceback, exit status 1
CodecRaises ==
    /\ pc = "start"
    /\ files # <<>>
    /\ \E env \in BatchEnvs :
          /\ ValidateCodec(env).raised # "none"
          /\ vIn' = env
          /\ vOut' = ValidateCodec(env)
    /\ \E k \in 1..(1 + Len(CodecSuggestions(args.extension))) :
          probes' = probes + k
    /\ pc' = "exited"
    /\ exitCode' = 1
    /\ UNCHANGED <<sVars, cVars, gVars, args, files, idx, out, writers, disk, outcome,
                   success_count, error_count>>

\* the loop as it would be probing the codec again for every image
BeginImageProbes ==
    /\ pc = "loop"
    /\ idx < Len(files)
    /\ idx' = idx + 1
    /\ probes' = probes + 1
    /\ pc' = "scaleAndBlur"
    /\ UNCHANGED <<vVars, sVars, cVars, gVars, args, files, out, writers, disk, outcome,
                   success_count, error_count, exitCode>>

\* line 474: the loop takes the next file
BeginImage ==
    /\ pc = "loop"
    /\ idx < Len(files)
    /\ idx' = idx + 1
    /\ pc' = "scaleAndBlur"
    /\ UNCHANGED <<vVars, sVars, cVars, gVars, args, files, out, writers, disk, outcome,
                   success_count, error_count, probes, exitCode>>

\* lines 493-498: scaleAndBlur returns the canvas
ScaleReturns ==
    /\ pc = "scaleAndBlur"
    /\ \E img \in BatchImages :
          /\ cIn' = [img |-> img, targetWidth |-> args.width,
                     targetHeight |-> args.height, targetBlur |-> args.blur]
          /\ cOut' = ScaleAndBlur(img, args.width, args.height, args.blur)
    /\ cOut'.raised = "none"
    /\ pc' = "frames_from_image"
    /\ UNCHANGED <<vVars, sVars, gVars, args, files, idx, out, writers, disk, outcome,
                   success_count, error_count, probes, exitCode>>

\* lines 493-498: scaleAndBlur raises
ScaleRaises ==
    /\ pc = "scaleAndBlur"
    /\ \E img \in BatchImages :
          /\ cIn' = [img |-> img, targetWidth |-> args.width,
                     targetHeight |-> args.height, targetBlur |-> args.blur]
          /\ cOut' = ScaleAndBlur(img, args.width, args.height, args.blur)
    /\ cOut'.raised # "none"
    /\ Handled(Handler(cOut'.raised), cOut'.msg)
    /\ UNCHANGED <<vVars, sVars, gVars, args, files, idx, out, writers, disk,
                   success_count, probes, exitCode>>

\* lines 502-510: the call only makes the generator, none of its body runs
MakeFrames ==
    /\ pc = "frames_from_image"
    /\ gIn' = [frameRate |-> args.fps, imgDuration |-> args.duration,
               zn |-> args.zoom, targetWidth |-> args.width,
               targetHeight |-> args.height, show_progress |-> ~args.quiet]
    /\ gPc' = "created"
    /\ gErr' = "none"
    /\ gFrames' = <<>>
    /\ gImage' = Canvas(cOut.shape)
    /\ gPrev' = IF gPc = "none" THEN NoPrev
                ELSE [pc |-> gPc, err |-> gErr, frames |-> gFrames]
    /\ pc' = "VideoWriter"
    /\ UNCHANGED <<vVars, sVars, cVars, args, files, idx, out, writers, disk, outcome,
                   success_count, error_count, probes, exitCode>>

\* binding `out` anew drops the writer it held: its destructor releases it
Rebound(state) ==
    [j \in DOMAIN writers |->
        IF j = idx THEN state
        ELSE IF j = out /\ writers[j] = "open" THEN "released"
        ELSE writers[j]]

\* lines 519-526: the writer opens and creates the output file
WriterOpens ==
    /\ pc = "VideoWriter"
    /\ out' = idx
    /\ writers' = Rebound("open")
    /\ disk' = [disk EXCEPT ![OutputPath(files[idx], args.extension)] =
                    [exists |-> TRUE, frames |-> 0, owner |-> idx]]
    /\ pc' = "write"
    /\ UNCHANGED <<vVars, sVars, cVars, gVars, args, files, idx, outcome, success_count,
                   error_count, probes, exitCode>>

\* the failed open as it would be reported with the validation errors
WriterFailsValueError ==
    /\ pc = "VideoWriter"
    /\ out' = idx
    /\ writers' = Rebound("unopened")
    /\ Handled("ValueError", "Failed to initialize video writer")
    /\ UNCHANGED <<vVars, sVars, cVars, gVars, args, files, idx, disk, success_count,
                   probes, exitCode>>

\* lines 519-527: it does not open, RuntimeError
WriterFails ==
    /\ pc = "VideoWriter"
    /\ out' = idx
    /\ writers' = Rebound("unopened")
    /\ Handled("RuntimeError", "Failed to initialize video writer")
    /\ UNCHANGED <<vVars, sVars, cVars, gVars, args, files, idx, disk, success_count,
                   probes, exitCode>>

\* lines 531-532: the generator yields a frame, out.write(frame)
WriteFrame ==
    /\ pc = "write"
    /\ GenYield
    /\ disk' = [disk EXCEPT ![OutputPath(files[idx], args.extension)].frames = @ + 1]
    /\ UNCHANGED <<vVars, sVars, cVars, args, files, pc, idx, out, writers, outcome,
                   success_count, error_count, probes, exitCode>>

\* line 531: the generator raises on its first next()
WriteRaises ==
    /\ pc = "write"
    /\ GenRaise
    /\ Handled("ValueError", gErr')
    /\ UNCHANGED <<vVars, sVars, cVars, args, files, idx, out, writers, disk,
                   success_count, probes, exitCode>>

\* line 531: the generator is exhausted, the for loop ends
WriteDone ==
    /\ pc = "write"
    /\ GenStop
    /\ pc' = "release"
    /\ UNCHANGED <<vVars, sVars, cVars, args, files, idx, out, writers, disk, outcome,
                   success_count, error_count, probes, exitCode>>

\* lines 534-544
Release ==
    /\ pc = "release"
    /\ writers' = [writers EXCEPT ![idx] = "released"]
    /\ outcome' = [outcome EXCEPT ![idx] = [kind |-> "ok", msg |-> "none"]]
    /\ success_count' = success_count + 1
    /\ pc' = "loop"
    /\ UNCHANGED <<vVars, sVars, cVars, gVars, args, files, idx, out, disk, error_count,
                   probes, exitCode>>

\* lines 577-584, then the interpreter exits and finalizes what is left
Summary ==
    /\ pc = "loop"
    /\ idx = Len(files)
    /\ pc' = "exited"
    /\ exitCode' = 0
    /\ writers' = [j \in DOMAIN writers |->
                      IF writers[j] = "open" THEN "released" ELSE writers[j]]
    /\ UNCHANGED <<vVars, sVars, cVars, gVars, args, files, idx, out, disk, outcome,
                   success_count, error_count, probes>>

Next ==
    \/ ParseArguments \/ ParseExits \/ FlagsConflict \/ InputMissing
    \/ OutputDirFails \/ ListImages
    \/ NoImages \/ CodecUsable \/ CodecUnusable \/ CodecRaises \/ BeginImage
    \/ ScaleReturns \/ ScaleRaises \/ MakeFrames
    \/ WriterOpens \/ WriterFails
    \/ WriteFrame \/ WriteRaises \/ WriteDone \/ Release \/ Summary

Spec == MainInit /\ [][Next]_vars

----------------------------------------------------------------------------
(* SpecStitch: one stitch job. stitch_videos is imported by                 *)
(* tests/test_stitching.py but is not part of imgToVideo.py as given, so    *)
(* the job is modelled from the documented contract: the state machine      *)
(* Init, ValidatingInputs, Streaming(i), Finalizing, Done or Failed.        *)

MaxVideos == 2        \* inputs of a stitch job: 0..MaxVideos
MaxVideoFrames == 2   \* frames in an input video: 0..MaxVideoFrames

\* the geometry the job declares, and what an input may have instead
StitchWidth == 640
StitchHeight == 480
OtherWidth == 320
OtherHeight == 240

\* what a reader finds at an input path: nothing it can open, or a video
NoVideo == [openable |-> FALSE, width |-> 0, height |-> 0, frames |-> 0]
Videos ==
    {NoVideo} \cup
    [openable : {TRUE}, width : {StitchWidth, OtherWidth},
     height : {StitchHeight}, frames : 0..MaxVideoFrames] \cup
    [openable : {TRUE}, width : {StitchWidth},
     height : {OtherHeight}, frames : 0..MaxVideoFrames]
VideoLists == UNION {[1..n -> Videos] : n \in 0..MaxVideos}
Jobs == [videos : VideoLists, output_path : {"", "out.mp4"}, encoder : BOOLEAN]

\* frame k of input i, as the marker the tests embed in each frame
Frame(i, k) == <<i, k>>

\* the check as it would be without the test of the output path
StitchParamsInvalidList(job) == job.videos = <<>>

StitchParamsInvalid(job) == job.videos = <<>> \/ job.output_path = ""

\* the geometry check as it would be comparing the width only
GeometryMatchesWidth(video) == video.width = StitchWidth

GeometryMatches(video) ==
    video.width = StitchWidth /\ video.height = StitchHeight

Fails(kind, input) ==
    /\ sErr' = [kind |-> kind, input |-> input]
    /\ sPc' = "Failed"

StitchInit ==
    /\ sJob \in Jobs
    /\ sPc = "Init"
    /\ sIdx = 0 /\ sReader = "none" /\ sPos = 0 /\ sOpened = <<>>
    /\ sOut = NoOutput /\ sErr = NoError /\ sResult = "none"
    /\ sReaders = [i \in DOMAIN sJob.videos |-> "none"]
    /\ ComposeIdle
    /\ FramesIdle
    /\ MainIdle
    /\ CodecIdle

\* the job is validated at the start of stitching
StitchStart ==
    /\ sPc = "Init"
    /\ sPc' = "ValidatingInputs"
    /\ UNCHANGED <<vVars, cVars, gVars, mVars, sJob, sReaders, sIdx, sReader, sPos, sOpened, sOut,
                   sErr, sResult>>

\* InvalidParameter: no input or no output path, before any file is touched
StitchRejects ==
    /\ sPc = "ValidatingInputs"
    /\ StitchParamsInvalid(sJob)
    /\ Fails("InvalidParameter", 0)
    /\ UNCHANGED <<vVars, cVars, gVars, mVars, sJob, sReaders, sIdx, sReader, sPos, sOpened, sOut,
                   sResult>>

\* the output VideoSink is opened once
SinkOpens ==
    /\ sPc = "ValidatingInputs"
    /\ ~StitchParamsInvalid(sJob)
    /\ sJob.encoder
    /\ sOut' = [exists |-> TRUE, open |-> TRUE, frames |-> <<>>]
    /\ sPc' = "Streaming"
    /\ sIdx' = 1
    /\ UNCHANGED <<vVars, cVars, gVars, mVars, sJob, sReaders, sReader, sPos, sOpened, sErr,
                   sResult>>

\* EncoderUnavailable: the sink cannot be opened; the failed open may or may
\* not have left an empty file at the path
SinkFails ==
    /\ sPc = "ValidatingInputs"
    /\ ~StitchParamsInvalid(sJob)
    /\ ~sJob.encoder
    /\ \E made \in BOOLEAN :
          sOut' = [exists |-> made, open |-> FALSE, frames |-> <<>>]
    /\ Fails("EncoderUnavailable", 0)
    /\ UNCHANGED <<vVars, cVars, gVars, mVars, sJob, sReaders, sIdx, sReader, sPos, sOpened,
                   sResult>>

\* a reader is opened on the next input, in list order
ReaderOpens ==
    /\ sPc = "Streaming" /\ sReader = "none"
    /\ sJob.videos[sIdx].openable
    /\ sReader' = "open"
    /\ sOpened' = Append(sOpened, sIdx)
    /\ sReaders' = [sReaders EXCEPT ![sIdx] = "open"]
    /\ UNCHANGED <<vVars, cVars, gVars, mVars, sJob, sPc, sIdx, sPos, sOut, sErr,
                   sResult>>

\* the job as it would go on, skipping the input, after a failed open
ReaderSkips ==
    /\ sPc = "Streaming" /\ sReader = "none"
    /\ ~sJob.videos[sIdx].openable
    /\ sOpened' = Append(sOpened, sIdx)
    /\ IF sIdx < Len(sJob.videos)
       THEN sIdx' = sIdx + 1 /\ sPc' = sPc
       ELSE sIdx' = sIdx /\ sPc' = "Finalizing"
    /\ UNCHANGED <<vVars, cVars, gVars, mVars, sJob, sReaders, sReader, sPos, sOut, sErr,
                   sResult>>

\* InputNotFound: the input cannot be opened as a readable video stream
ReaderFails ==
    /\ sPc = "Streaming" /\ sReader = "none"
    /\ ~sJob.videos[sIdx].openable
    /\ sOpened' = Append(sOpened, sIdx)
    /\ Fails("InputNotFound", sIdx)
    /\ UNCHANGED <<vVars, cVars, gVars, mVars, sJob, sReaders, sIdx, sReader, sPos, sOut,
                   sResult>>

\* the opened input has the declared width and height
GeometryOk ==
    /\ sPc = "Streaming" /\ sReader = "open"
    /\ GeometryMatches(sJob.videos[sIdx])
    /\ sReader' = "validated"
    /\ UNCHANGED <<vVars, cVars, gVars, mVars, sJob, sReaders, sPc, sIdx, sPos, sOpened, sOut,
                   sErr, sResult>>

\* DimensionMismatch: it has not; the reader is released with the job
GeometryDiffers ==
    /\ sPc = "Streaming" /\ sReader = "open"
    /\ ~GeometryMatches(sJob.videos[sIdx])
    /\ sReader' = "none"
    /\ Fails("DimensionMismatch", sIdx)
    /\ sReaders' = [sReaders EXCEPT ![sIdx] = "closed"]
    /\ UNCHANGED <<vVars, cVars, gVars, mVars, sJob, sIdx, sPos, sOpened, sOut,
                   sResult>>


\* the copy as it would be with the read and the written frame out of step
CopyFrameStale ==
    /\ sPc = "Streaming" /\ sReader = "validated"
    /\ sPos < sJob.videos[sIdx].frames
    /\ sOut' = [sOut EXCEPT !.frames = Append(@, Frame(sIdx, Max(sPos, 1)))]
    /\ sPos' = sPos + 1
    /\ UNCHANGED <<vVars, cVars, gVars, mVars, sJob, sReaders, sPc, sIdx, sReader, sOpened, sErr,
                   sResult>>

\* the next frame is read, in temporal order, and written unchanged
CopyFrame ==
    /\ sPc = "Streaming" /\ sReader = "validated"
    /\ sPos < sJob.videos[sIdx].frames
    /\ sOut' = [sOut EXCEPT !.frames = Append(@, Frame(sIdx, sPos + 1))]
    /\ sPos' = sPos + 1
    /\ UNCHANGED <<vVars, cVars, gVars, mVars, sJob, sReaders, sPc, sIdx, sReader, sOpened, sErr,
                   sResult>>

\* the step as it would be with the reader left to the garbage collector
ReaderClosesLater ==
    /\ sPc = "Streaming" /\ sReader = "validated"
    /\ sPos = sJob.videos[sIdx].frames
    /\ sReader' = "none"
    /\ sPos' = 0
    /\ IF sIdx < Len(sJob.videos)
       THEN sIdx' = sIdx + 1 /\ sPc' = sPc
       ELSE sIdx' = sIdx /\ sPc' = "Finalizing"
    /\ UNCHANGED <<vVars, cVars, gVars, mVars, sJob, sReaders, sOpened, sOut, sErr,
                   sResult>>

\* the input is exhausted: its reader is closed before the next is opened
ReaderCloses ==
    /\ sPc = "Streaming" /\ sReader = "validated"
    /\ sPos = sJob.videos[sIdx].frames
    /\ sReader' = "none"
    /\ sPos' = 0
    /\ IF sIdx < Len(sJob.videos)
       THEN sIdx' = sIdx + 1 /\ sPc' = sPc
       ELSE sIdx' = sIdx /\ sPc' = "Finalizing"
    /\ sReaders' = [sReaders EXCEPT ![sIdx] = "closed"]
    /\ UNCHANGED <<vVars, cVars, gVars, mVars, sJob, sOpened, sOut, sErr, sResult>>

\* success: the output is closed and stitch returns true
Finalize ==
    /\ sPc = "Finalizing"
    /\ sOut' = [sOut EXCEPT !.open = FALSE]
    /\ sResult' = "true"
    /\ sPc' = "Done"
    /\ UNCHANGED <<vVars, cVars, gVars, mVars, sJob, sReaders, sIdx, sReader, sPos, sOpened, sErr>>

\* the failure as it would surface with the output only closed, not removed
CleanupCloseOnly ==
    /\ sPc = "Failed" /\ sResult = "none"
    /\ sOut' = [sOut EXCEPT !.open = FALSE]
    /\ sResult' = sErr.kind
    /\ UNCHANGED <<vVars, cVars, gVars, mVars, sJob, sReaders, sPc, sIdx, sReader, sPos, sOpened,
                   sErr>>

\* failure: the partly written output is closed and removed, then the error
\* is propagated to the caller
Cleanup ==
    /\ sPc = "Failed" /\ sResult = "none"
    /\ sOut' = NoOutput
    /\ sResult' = sErr.kind
    /\ UNCHANGED <<vVars, cVars, gVars, mVars, sJob, sReaders, sPc, sIdx, sReader, sPos, sOpened,
                   sErr>>

StitchNext ==
    \/ StitchStart \/ StitchRejects \/ SinkOpens \/ SinkFails
    \/ ReaderOpens \/ ReaderFails \/ GeometryOk \/ GeometryDiffers
    \/ CopyFrame \/ ReaderCloses \/ Finalize \/ Cleanup

SpecStitch == StitchInit /\ [][StitchNext]_vars

----------------------------------------------------------------------------
(* SpecCodec: one call of validate_codec, lines 196-260                     *)

CodecInit ==
    /\ vIn \in CodecEnvs
    /\ vOut = NoProbe
    /\ ComposeIdle
    /\ FramesIdle
    /\ MainIdle
    /\ StitchIdle

Probe ==
    /\ pc = "none" /\ sPc = "none"
    /\ ~vOut.called
    /\ vOut' = ValidateCodec(vIn)
    /\ UNCHANGED <<vIn, cVars, gVars, mVars, sVars>>

SpecCodec == CodecInit /\ [][Probe]_vars

----------------------------------------------------------------------------
(* Properties                                                               *)

ComposeParamsValid ==
    cIn.targetWidth > 0 /\ cIn.targetHeight > 0 /\ cIn.targetBlur > 0
    /\ cIn.targetBlur % 2 = 1

ParamMessages ==
    {"Target dimensions must be positive", "Target blur must be positive",
     "Target blur must be odd"}

FrameMessages ==
    {"Frame rate must be positive", "Image duration must be positive",
     "Zoom rate must be between 0 and 0.1", "Target dimensions must be positive"}

\* C1 (as claimed): for every decodable image and valid parameters scaleAndBlur
\* returns normally a canvas of shape (targetHeight, targetWidth, 3), and no
\* overlay or cover size is zero or smaller than the target.
C1_CanvasShape ==
    (cOut.called /\ cIn.img.readable /\ ComposeParamsValid) =>
        /\ cOut.raised = "none"
        /\ cOut.shape = <<cIn.targetHeight, cIn.targetWidth, 3>>
        /\ cOut.newData[1] > 0 /\ cOut.newData[2] > 0
        /\ cOut.invNewData[1] >= cIn.targetWidth
        /\ cOut.invNewData[2] >= cIn.targetHeight

\* how an image's pipeline ended with a parameter rejected
InvalidParameterAt(j) ==
    /\ outcome[j].kind = "ValueError"
    /\ outcome[j].msg \in ParamMessages \cup FrameMessages

\* C2 (as claimed): when the pipeline of an image ends with a parameter
\* rejected, no writer was made for the image and no output file was opened.
C2_InvalidParameterBeforeOutput ==
    \A j \in DOMAIN outcome :
        InvalidParameterAt(j) =>
            /\ writers[j] = "none"
            /\ \A p \in OutputPaths : disk[p].owner # j

\* C3 (as claimed): once the pipeline of an image has ended, in success or in
\* error, no writer opened for it is still open.
C3_WriterReleased ==
    \A j \in DOMAIN outcome :
        outcome[j].kind # "pending" => writers[j] # "open"

\* C4: with a non-positive width or height, or a blur that is non-positive or
\* even, scaleAndBlur raises the parameter's error and never reads the image,
\* whether or not the file could be decoded.
C4_ValidationBeforeRead ==
    (cOut.called /\ ~ComposeParamsValid) =>
        /\ cOut.raised = "ValueError"
        /\ cOut.msg \in ParamMessages
        /\ ~cOut.imread

C4_Witness ==
    /\ cOut.called /\ ~cIn.img.readable
    /\ cIn.targetWidth > 0 /\ cIn.targetHeight > 0 /\ cIn.targetBlur = 2
    /\ cOut.msg = "Target blur must be odd"

\* C5 (as claimed): an undecodable image with valid parameters fails with an
\* error kind different from the kind a rejected parameter fails with.
C5_DistinctKind ==
    (cOut.called /\ ~cIn.img.readable /\ ComposeParamsValid) =>
        /\ cOut.raised # "none"
        /\ cOut.raised # ScaleAndBlur(cIn.img, 0, 0, 0).raised

\* C5 (amended): an undecodable image with valid parameters fails, after the
\* read was attempted, with ValueError "Failed to load image": the kind the
\* parameter checks raise, told apart from them by its message only.
C5_LoadError ==
    (cOut.called /\ ~cIn.img.readable /\ ComposeParamsValid) =>
        /\ cOut.raised = "ValueError"
        /\ cOut.msg = "Failed to load image"
        /\ cOut.msg \notin ParamMessages
        /\ cOut.imread

C5_Witness ==
    /\ cOut.called /\ ~cIn.img.readable /\ ComposeParamsValid
    /\ cOut.raised = "ValueError"

\* C6: an exhausted generator has yielded exactly frameRate * imgDuration
\* frames, numbered 0, 1, ... in order, and a generator never yields more,
\* whatever the zoom rate, the target size and show_progress.
C6_FrameCount ==
    /\ gPc = "done" => Len(gFrames) = gIn.frameRate * gIn.imgDuration
    /\ gPc \in {"suspended", "done"} =>
          /\ Len(gFrames) <= gIn.frameRate * gIn.imgDuration
          /\ \A j \in DOMAIN gFrames : gFrames[j].i = j - 1
    /\ gPc = "suspended" => Len(gFrames) >= 1

C6_Witness ==
    /\ pc = "none" /\ gPc = "done"
    /\ gIn.frameRate = MaxRate /\ gIn.imgDuration = MaxDuration
    /\ gIn.zn = 1000 /\ gIn.show_progress
    /\ Len(gFrames) = MaxRate * MaxDuration

\* C7 (as claimed): with a positive zoom rate the margins are strictly
\* increasing in the frame index.
C7_StrictlyIncreasing ==
    \A j, k \in DOMAIN gFrames :
        (gIn.zn > 0 /\ j < k) =>
            /\ gFrames[j].horizontalOffset < gFrames[k].horizontalOffset
            /\ gFrames[j].verticalOffset < gFrames[k].verticalOffset

\* C7 (amended): the margins never decrease with the frame index: every frame
\* yielded has margins at least those of every frame yielded before it.
C7_NonDecreasing ==
    \A j \in DOMAIN gFrames :
        /\ gFrames[j].horizontalOffset <= gFrames[Len(gFrames)].horizontalOffset
        /\ gFrames[j].verticalOffset <= gFrames[Len(gFrames)].verticalOffset

C7_Witness ==
    /\ pc = "none" /\ gIn.zn > 0 /\ Len(gFrames) >= 3
    /\ gFrames[1].horizontalOffset = gFrames[2].horizontalOffset
    /\ gFrames[2].horizontalOffset < gFrames[Len(gFrames)].horizontalOffset
    /\ gFrames[2].verticalOffset < gFrames[Len(gFrames)].verticalOffset

\* floor(i * zoomRate * dim) for the zoom rate zn / ZoomDen, in exact arithmetic
ExactMargin(i, zn, dim) == (i * zn * dim) \div ZoomDen

\* C8 (as claimed): the margins of frame i are floor((scale - 1) * targetHeight)
\* and floor((scale - 1) * targetWidth) with scale = 1 + i * zoomRate.
C8_ExactFloor ==
    \A j \in DOMAIN gFrames :
        /\ gFrames[j].horizontalOffset = ExactMargin(j - 1, gIn.zn, gIn.targetHeight)
        /\ gFrames[j].verticalOffset = ExactMargin(j - 1, gIn.zn, gIn.targetWidth)

Within1(a, b) == a - b \in {-1, 0, 1}

\* C8 (amended): frame i takes its row margin from targetHeight and its column
\* margin from targetWidth, each within one of floor(i * zoomRate * dim)
\* (double rounding of ((1 + i*zoomRate) - 1) * dim can fall just short of an
\* integer); the canvas is enlarged to (targetWidth + 2*marginCols,
\* targetHeight + 2*marginRows) and cropped to rows [marginRows, targetHeight +
\* marginRows) and columns [marginCols, targetWidth + marginCols); frame 249
\* at 0.0004 and 1920x1080 has margins 107 and 191.
C8_FrameWindow ==
    \A j \in DOMAIN gFrames :
        LET f == gFrames[j] IN
        /\ f.i = j - 1
        /\ Within1(f.horizontalOffset, ExactMargin(j - 1, gIn.zn, gIn.targetHeight))
        /\ Within1(f.verticalOffset, ExactMargin(j - 1, gIn.zn, gIn.targetWidth))
        /\ f.currentDimensions = <<gIn.targetWidth + 2 * f.verticalOffset,
                                   gIn.targetHeight + 2 * f.horizontalOffset>>
        /\ f.rows = <<f.horizontalOffset, gIn.targetHeight + f.horizontalOffset>>
        /\ f.cols = <<f.verticalOffset, gIn.targetWidth + f.verticalOffset>>
        /\ (/\ f.i = 249 /\ gIn.zn = DefaultZoom
            /\ gIn.targetWidth = DefaultWidth /\ gIn.targetHeight = DefaultHeight)
           => (f.horizontalOffset = 107 /\ f.verticalOffset = 191)

C8_Witness ==
    /\ pc = "none" /\ Len(gFrames) = 250
    /\ gIn.zn = DefaultZoom /\ gIn.targetWidth = DefaultWidth
    /\ gIn.targetHeight = DefaultHeight
    /\ gFrames[250].horizontalOffset = 107

\* C9: every frame yielded has shape (targetHeight, targetWidth, 3), and its
\* crop window lies inside the enlarged canvas, up to the zoom rate 0.1.
C9_FrameShape ==
    \A j \in DOMAIN gFrames :
        LET f == gFrames[j] IN
        /\ f.shape = <<gIn.targetHeight, gIn.targetWidth, 3>>
        /\ 0 <= f.rows[1] /\ f.rows[2] <= f.currentDimensions[2]
        /\ 0 <= f.cols[1] /\ f.cols[2] <= f.currentDimensions[1]

C9_Witness ==
    /\ pc = "none" /\ gIn.zn = 1000 /\ Len(gFrames) >= 3
    /\ gFrames[Len(gFrames)].horizontalOffset > 0
    /\ gFrames[Len(gFrames)].verticalOffset > 0

FrameParamsInvalid ==
    \/ gIn.frameRate <= 0 \/ gIn.imgDuration <= 0
    \/ gIn.zn < 0 \/ gIn.zn * 10 > ZoomDen
    \/ gIn.targetWidth <= 0 \/ gIn.targetHeight <= 0

\* C10: once driven, the generator has raised exactly when frameRate <= 0,
\* imgDuration <= 0, zoomRate < 0, zoomRate > 0.1, targetWidth <= 0 or
\* targetHeight <= 0 (0 and 0.1 are accepted), and it has then yielded no frame.
C10_Validation ==
    /\ gPc \in {"suspended", "done", "raised"} =>
          (gPc = "raised" <=> FrameParamsInvalid)
    /\ gPc = "raised" => (gFrames = <<>> /\ gErr \in FrameMessages)
    /\ gPc # "raised" => gErr = "none"

C10_Witness ==
    /\ pc = "none" /\ gPc = "raised" /\ gIn.zn = 1001
    /\ gIn.frameRate > 0 /\ gIn.imgDuration > 0
    /\ gIn.targetWidth > 0 /\ gIn.targetHeight > 0
    /\ gFrames = <<>>

\* C11: with the zoom rate 0 every frame yielded has scale 1.0 and both
\* margins 0, the canvas is resized to the target size itself, and the crop
\* window is the whole canvas, rows [0, targetHeight), columns [0, targetWidth).
C11_ZeroZoom ==
    gIn.zn = 0 =>
        \A j \in DOMAIN gFrames :
            LET f == gFrames[j] IN
            /\ f.currentScale = FFromInt(1)
            /\ f.horizontalOffset = 0 /\ f.verticalOffset = 0
            /\ f.currentDimensions = <<gIn.targetWidth, gIn.targetHeight>>
            /\ f.rows = <<0, f.currentDimensions[2]>>
            /\ f.cols = <<0, f.currentDimensions[1]>>

C11_Witness ==
    /\ pc = "none" /\ gPc = "done" /\ gIn.zn = 0
    /\ gIn.targetWidth = DefaultWidth /\ gIn.targetHeight = MaxTarget
    /\ Len(gFrames) = MaxRate * MaxDuration

\* C12: the window of the frame at position i is FrameWindow(i, zoomRate,
\* targetWidth, targetHeight), whatever frameRate, imgDuration and
\* show_progress are and however many frames were consumed before; and a
\* generator made by a second call with the same arguments repeats the first
\* one: the same windows in the same order, the same error, the same length
\* (each frame is compared as it is yielded).
C12_Deterministic ==
    /\ gFrames # <<>> =>
          /\ gFrames[Len(gFrames)] =
                FrameOffsets(Len(gFrames) - 1, gIn.targetWidth, gIn.targetHeight,
                             FAddOne(FMulInt(Zoom(gIn.zn), Len(gFrames) - 1)))
          /\ Len(gFrames) <= Len(gPrev.frames) =>
                gFrames[Len(gFrames)] = gPrev.frames[Len(gFrames)]
    /\ (gPrev.pc = "raised" /\ gPc # "created") =>
          (gPc = "raised" /\ gErr = gPrev.err)
    /\ (gPrev.pc = "done" /\ gPc = "done") => Len(gFrames) = Len(gPrev.frames)
    /\ (gPrev.pc = "suspended" /\ gPc # "created") => gPc # "raised"

C12_Witness ==
    /\ pc = "none" /\ gPc = "done" /\ gPrev.pc = "suspended"
    /\ gIn.zn = 1000 /\ gIn.targetHeight = DefaultHeight
    /\ Len(gPrev.frames) = 3 /\ Len(gFrames) = MaxRate * MaxDuration
    /\ gFrames[3].horizontalOffset > 0

\* the call got as far as the composition: valid parameters, decoded image
Composed == cOut.called /\ cIn.img.readable /\ ComposeParamsValid

\* C13: the source is taken as wide exactly when sourceWidth/sourceHeight >
\* targetWidth/targetHeight as fractions (equal ratios are not wide); when wide
\* the overlay scale is targetWidth/sourceWidth and the cover scale is
\* targetHeight/sourceHeight, otherwise the overlay scale is
\* targetHeight/sourceHeight and the cover scale targetWidth/sourceWidth.
C13_WideOrNarrow ==
    Composed =>
        /\ cOut.wide <=>
              cIn.img.w * cIn.targetHeight > cIn.targetWidth * cIn.img.h
        /\ cOut.wide =>
              /\ cOut.scaleFactor = FDivInt(cIn.targetWidth, cIn.img.w)
              /\ cOut.invScaleFactor = FDivInt(cIn.targetHeight, cIn.img.h)
        /\ ~cOut.wide =>
              /\ cOut.scaleFactor = FDivInt(cIn.targetHeight, cIn.img.h)
              /\ cOut.invScaleFactor = FDivInt(cIn.targetWidth, cIn.img.w)

C13_Witness ==
    /\ Composed /\ cOut.raised = "none" /\ ~cOut.wide
    /\ cIn.img.w * cIn.targetHeight = cIn.targetWidth * cIn.img.h
    /\ cIn.img.w > cIn.targetWidth

\* C14: whatever the source size, the overlay copy is no wider and no higher
\* than the target: int(scaleFactor * initialWidth) <= targetWidth and
\* int(scaleFactor * initialHeight) <= targetHeight.
C14_OverlayFits ==
    Composed =>
        /\ cOut.newData[1] <= cIn.targetWidth
        /\ cOut.newData[2] <= cIn.targetHeight

C14_Witness ==
    /\ Composed /\ cOut.raised = "none" /\ cOut.wide
    /\ cIn.targetWidth = DefaultWidth /\ cIn.targetHeight = DefaultHeight
    /\ cOut.newData[1] = cIn.targetWidth
    /\ cOut.newData[2] < cIn.targetHeight

\* C15: whatever the source size, the cover copy is at least as wide and at
\* least as high as the target, so that its crop [0:targetHeight,
\* 0:targetWidth] has the full target size.
C15_CoverFills ==
    Composed =>
        /\ cOut.invNewData[1] >= cIn.targetWidth
        /\ cOut.invNewData[2] >= cIn.targetHeight

\* C16: the overlay is pasted at x_offset = targetWidth // 2 - overlayWidth // 2
\* in both branches, and at y_offset = targetHeight // 2 - overlayHeight // 2
\* when the source is wide, 0 otherwise, with overlayWidth and overlayHeight
\* the integer size of the overlay: halving the unrounded scaled size gives
\* the same offset as halving the integer size.
C16_Offsets ==
    Composed =>
        /\ cOut.x_offset = (cIn.targetWidth \div 2) - (cOut.newData[1] \div 2)
        /\ cOut.wide =>
              cOut.y_offset = (cIn.targetHeight \div 2) - (cOut.newData[2] \div 2)
        /\ ~cOut.wide => cOut.y_offset = 0

C16_Witness ==
    /\ Composed /\ cOut.raised = "none" /\ cOut.wide
    /\ cIn.targetWidth = DefaultWidth /\ cIn.targetHeight = DefaultHeight
    /\ cIn.img.w = 11 /\ cIn.img.h = 3
    /\ cOut.y_offset > 0 /\ cOut.newData[2] % 2 = 1

\* the frames of the first n inputs, one input after the other
RECURSIVE Concatenation(_, _)
Concatenation(videos, n) ==
    IF n = 0 THEN <<>>
    ELSE Concatenation(videos, n - 1)
         \o [k \in 1..videos[n].frames |-> <<n, k>>]

RECURSIVE FrameSum(_, _)
FrameSum(videos, n) ==
    IF n = 0 THEN 0 ELSE FrameSum(videos, n - 1) + videos[n].frames

\* C17: when stitch has returned true the output is closed and holds exactly
\* the inputs' frames, input after input in list order, each input's frames
\* in their order and unchanged; their number is the sum of the inputs' frame
\* counts.
C17_Concatenation ==
    sResult = "true" =>
        /\ sPc = "Done" /\ sOut.exists /\ ~sOut.open
        /\ sOut.frames = Concatenation(sJob.videos, Len(sJob.videos))
        /\ Len(sOut.frames) = FrameSum(sJob.videos, Len(sJob.videos))

C17_Witness ==
    /\ sResult = "true" /\ Len(sJob.videos) = MaxVideos
    /\ \A i \in DOMAIN sJob.videos : sJob.videos[i].frames = MaxVideoFrames
    /\ Len(sOut.frames) = MaxVideos * MaxVideoFrames

\* C18: the job enters Failed only from ValidatingInputs or Streaming, and
\* once the error has reached the caller the output is closed and no
\* non-empty output file is left, also when frames of earlier inputs had
\* been written.
C18_CleanupOnFailure ==
    [][/\ (sPc' = "Failed" /\ sPc # "Failed") =>
              sPc \in {"ValidatingInputs", "Streaming"}
       /\ sResult' \notin {"none", "true"} =>
              /\ sPc' = "Failed" /\ sResult' = sErr'.kind
              /\ ~sOut'.open
              /\ ~sOut'.exists \/ sOut'.frames = <<>>]_vars

C18_Witness ==
    /\ sResult = "DimensionMismatch" /\ sErr.input = 2
    /\ sJob.videos[1].frames = MaxVideoFrames
    /\ sOut = NoOutput

\* the input is a video of the declared width and height
Declared(i) ==
    /\ sJob.videos[i].openable
    /\ sJob.videos[i].width = StitchWidth
    /\ sJob.videos[i].height = StitchHeight

\* C19: DimensionMismatch names the first input whose width or height is not
\* the declared one; every input before it was opened and had the declared
\* geometry, no input after it was opened, and no frame of an input of
\* another geometry is ever written.
C19_DimensionMismatch ==
    /\ sErr.kind = "DimensionMismatch" =>
          /\ sErr.input \in DOMAIN sJob.videos /\ sErr.input = sIdx
          /\ sJob.videos[sErr.input].openable /\ ~Declared(sErr.input)
          /\ \A j \in 1..(sErr.input - 1) : Declared(j)
          /\ sOpened = [j \in 1..sErr.input |-> j]
          /\ \A k \in DOMAIN sOut.frames : sOut.frames[k][1] < sErr.input
    /\ \A k \in DOMAIN sOut.frames : Declared(sOut.frames[k][1])
    /\ \A j \in DOMAIN sOpened :
          (sJob.videos[sOpened[j]].openable /\ ~Declared(sOpened[j])) =>
              /\ j = Len(sOpened)
              /\ sReader = "open" \/ sErr = [kind |-> "DimensionMismatch",
                                             input |-> sOpened[j]]
    /\ sResult = "DimensionMismatch" => sErr.kind = "DimensionMismatch"

C19_Witness ==
    /\ sResult = "DimensionMismatch" /\ sErr.input = 2
    /\ sJob.videos[2].width = StitchWidth /\ sJob.videos[2].height = OtherHeight
    /\ sJob.videos[2].frames = MaxVideoFrames
    /\ sJob.videos[1].frames = 1

\* C20: InputNotFound names the first input that cannot be opened; the inputs
\* are opened in list order with none skipped, an input that cannot be opened
\* is the last one a reader is asked for, and no frame of it or of a later
\* input is written.
C20_InputNotFound ==
    /\ sErr.kind = "InputNotFound" =>
          /\ sErr.input \in DOMAIN sJob.videos /\ sErr.input = sIdx
          /\ ~sJob.videos[sErr.input].openable
          /\ \A j \in 1..(sErr.input - 1) : sJob.videos[j].openable
          /\ \A k \in DOMAIN sOut.frames : sOut.frames[k][1] < sErr.input
    /\ sOpened = [j \in 1..Len(sOpened) |-> j]
    /\ \A j \in DOMAIN sOpened :
          ~sJob.videos[sOpened[j]].openable =>
              /\ j = Len(sOpened)
              /\ sErr = [kind |-> "InputNotFound", input |-> sOpened[j]]
    /\ sResult = "InputNotFound" => sErr.kind = "InputNotFound"

C20_Witness ==
    /\ sResult = "InputNotFound" /\ sErr.input = 2
    /\ sJob.videos[1].frames = MaxVideoFrames
    /\ Len(sJob.videos) = 2 /\ sOpened = <<1, 2>>

\* C21: a job with no input or with an empty output path fails with
\* InvalidParameter, and a job that failed so asked for no reader and left
\* the output artifact absent and unopened at every step.
C21_InvalidJob ==
    /\ (sJob.videos = <<>> \/ sJob.output_path = "") =>
          /\ sOpened = <<>> /\ sReader = "none"
          /\ sOut = NoOutput
          /\ sPc \in {"Init", "ValidatingInputs", "Failed"}
          /\ sPc = "Failed" => sErr = [kind |-> "InvalidParameter", input |-> 0]
          /\ sResult \in {"none", "InvalidParameter"}
    /\ sErr.kind = "InvalidParameter" =>
          (sJob.videos = <<>> \/ sJob.output_path = "")

C21_Witness ==
    /\ sResult = "InvalidParameter" /\ sJob.output_path = ""
    /\ Len(sJob.videos) = MaxVideos /\ sJob.encoder
    /\ sJob.videos[1].openable

\* C22: at most one input reader is open at any time; when the reader of an
\* input is open the readers of all earlier inputs are closed and none of a
\* later input was opened; and once stitch has returned or raised, no reader
\* and no writer of the job is open.
C22_OneReader ==
    /\ \A i, j \in DOMAIN sReaders :
          (sReaders[i] = "open" /\ sReaders[j] = "open") => i = j
    /\ \A i, j \in DOMAIN sReaders :
          (i < j /\ sReaders[j] # "none") => sReaders[i] = "closed"
    /\ sResult # "none" =>
          /\ \A i \in DOMAIN sReaders : sReaders[i] # "open"
          /\ ~sOut.open

C22_Witness ==
    /\ sPc = "Streaming" /\ Len(sJob.videos) = MaxVideos
    /\ sReaders[MaxVideos] = "open" /\ sReaders[1] = "closed"
    /\ Len(sOut.frames) = MaxVideoFrames

\* C23: an image whose writer did not open ends in the RuntimeError clause,
\* with the message of line 527, while rejected parameters and undecodable
\* images end in the ValueError clause; RuntimeError is reported for nothing
\* else, and no frame is written through a writer that did not open: the
\* output file, if there is one, is not that writer's.
C23_WriterOpenFailure ==
    \A j \in DOMAIN outcome :
        /\ writers[j] = "unopened" =>
              /\ outcome[j] = [kind |-> "RuntimeError",
                               msg |-> "Failed to initialize video writer"]
              /\ \A p \in OutputPaths : disk[p].owner # j
        /\ outcome[j].kind = "RuntimeError" => writers[j] = "unopened"
        /\ outcome[j].kind = "ValueError" =>
              outcome[j].msg \in
                  ParamMessages \cup FrameMessages \cup {"Failed to load image"}

C23_Witness ==
    /\ pc = "exited" /\ Len(files) = MaxFiles
    /\ outcome[1] = [kind |-> "ValueError", msg |-> "Failed to load image"]
    /\ writers[MaxFiles] = "unopened"
    /\ outcome[MaxFiles].kind = "RuntimeError"
    /\ error_count = MaxFiles

\* where the program is before it validates the codec
BeforeCodec == {"parse_arguments", "directories", "start"}

\* no image was taken up: the loop did not start, nothing counted or written
NoImageProcessed ==
    /\ idx = 0 /\ success_count = 0 /\ error_count = 0
    /\ \A j \in DOMAIN outcome : outcome[j] = Pending /\ writers[j] = "none"
    /\ \A p \in OutputPaths : disk[p] = NoFile

\* C24 (as claimed): validate_codec is called once per batch, before any
\* image; when it reports the codec unusable no image is processed and the
\* exit status is 1.
C24_ProbedOnce ==
    /\ probes <= 1
    /\ idx > 0 => probes = 1
    /\ exitCode = 1 => NoImageProcessed

\* C24 (amended): validate_codec is called only before the first image, never
\* while images are processed: not at all when no image file was found, once
\* for the requested codec otherwise, and once more for each codec suggested
\* for the extension when the requested one is reported unusable; in that
\* case no image is processed and the exit status is 1.  A call that raises
\* instead of answering ends the run at once, with exit status 1, after at
\* most that many calls and with no image processed.
C24_ProbesBeforeImages ==
    /\ pc \in BeforeCodec => probes = 0
    /\ files = <<>> => probes = 0
    /\ (pc = "exited" /\ files = <<>> /\ exitCode # 0) =>
          \/ exitCode = 2 /\ args = NoArgs
          \/ exitCode = 1 /\ args # NoArgs
    /\ (pc \notin BeforeCodec /\ files # <<>> /\ exitCode # 1) => probes = 1
    /\ (exitCode = 1 /\ files # <<>>) =>
          /\ pc = "exited"
          /\ vOut.raised = "none" =>
                probes = 1 + Len(CodecSuggestions(args.extension))
          /\ vOut.raised # "none" =>
                probes \in 1..(1 + Len(CodecSuggestions(args.extension)))
    /\ exitCode \in {1, 2} => NoImageProcessed

C24_Witness ==
    /\ pc = "exited" /\ exitCode = 1 /\ Len(files) = MaxFiles
    /\ args.extension = "MXF" /\ vOut.called /\ vOut.raised = "none"
    /\ probes = 3 /\ NoImageProcessed

\* C25 (as claimed): whichever way validate_codec ends (writer not opened,
\* codec error on stderr, file too small, success, exception), afterwards
\* sys.stderr is the stream it was before the call and the temporary test
\* file is gone.
C25_NoLastingEffect ==
    vOut.called =>
        /\ vOut.stderr = "old"
        /\ ~vOut.tmp
        /\ vOut.path \in {"not opened", "codec error", "too small", "ok",
                          "exception", "tempfile"}

C27_CanvasReadOnly ==
    gPc # "none" =>
        /\ gImage.content = "canvas"
        /\ pc = "none" =>
              gImage.shape = <<Max(gIn.targetHeight, 1), Max(gIn.targetWidth, 1), 3>>

C27_Witness ==
    /\ pc = "none" /\ gPc = "done" /\ gIn.zn = 1000
    /\ gIn.targetWidth = DefaultWidth /\ gIn.targetHeight = DefaultHeight
    /\ Len(gFrames) = MaxRate * MaxDuration
    /\ gFrames[Len(gFrames)].horizontalOffset > 0
    /\ gImage = Canvas(<<DefaultHeight, DefaultWidth, 3>>)

\* C28 (as claimed): for every decodable source and valid target the overlay's
\* rectangle starts at non-negative offsets, ends inside the target and inside
\* the cover, and the paste neither selects a region clipped by the cover's
\* edge nor fails on a shape mismatch.
C28_PasteInside ==
    (Composed /\ cOut.newData[1] > 0 /\ cOut.newData[2] > 0) =>
        /\ 0 <= cOut.x_offset /\ 0 <= cOut.y_offset
        /\ cOut.x_offset + cOut.newData[1] <= cIn.targetWidth
        /\ cOut.y_offset + cOut.newData[2] <= cIn.targetHeight
        /\ cOut.x_offset + cOut.newData[1] <= cOut.invNewData[1]
        /\ cOut.y_offset + cOut.newData[2] <= cOut.invNewData[2]
        /\ cOut.pasteCols = cOut.newData[1]
        /\ cOut.pasteRows = cOut.newData[2]
        /\ cOut.raised = "none"

\* the images whose pipeline has ended, by success or by a handled error
Attempted == IF pc \in {"loop", "exited"} THEN idx ELSE idx - 1

\* C29: once the codec was found usable the loop takes the files in order,
\* each one once: the files with an outcome are exactly the first Attempted
\* ones, each counted once in success_count or error_count, an error of any
\* kind leaves the loop running, and when the program has left the loop every
\* file has an outcome and success_count + error_count is the number of files.
C29_EveryImageOnce ==
    (pc \notin {"none"} \cup BeforeCodec /\ exitCode # 1) =>
        /\ idx \in 0..Len(files)
        /\ \A j \in DOMAIN files : (outcome[j] # Pending) <=> (j <= Attempted)
        /\ success_count = Cardinality({j \in DOMAIN files : outcome[j].kind = "ok"})
        /\ error_count =
              Cardinality({j \in DOMAIN files : outcome[j].kind \notin {"ok", "pending"}})
        /\ success_count + error_count = Attempted
        /\ pc = "exited" => Attempted = Len(files)

C29_Witness ==
    /\ pc = "exited" /\ exitCode = 0 /\ Len(files) = MaxFiles
    /\ outcome[1].kind = "RuntimeError"
    /\ outcome[MaxFiles].kind = "ok"
    /\ success_count + error_count = MaxFiles /\ error_count >= 1

\* C30 (as claimed): two distinct image files of one batch never have the
\* same output path, and a clip written for an image stays that image's clip:
\* no later image of the batch opens a writer on it.
C30_DistinctOutputs ==
    pc \notin {"none"} \cup BeforeCodec =>
        /\ \A j, k \in DOMAIN files :
              (j # k /\ writers[j] # "none" /\ writers[k] # "none") =>
                  OutputPath(files[j], args.extension)
                      # OutputPath(files[k], args.extension)
        /\ \A j \in DOMAIN files :
              outcome[j].kind = "ok" =>
                  disk[OutputPath(files[j], args.extension)].owner = j
====
